---- MODULE Spec2Model ----
(***************************************************************************)
(* Model of the app-delivery constructs of aws-cdk:                        *)
(*   - DeployAction  (lib/deploy, kept in with-batch-job.ts-fixture)       *)
(*   - Pipeline      (packages/@aws-cdk/app-delivery/lib/pipeline.ts)      *)
(*                                                                         *)
(* JavaScript strings are sequences of one-character strings, so that      *)
(* startsWith, substr, split, join and template interpolation are          *)
(* computed character by character.  An optional value (a `?` property)    *)
(* is a sequence of length 0 (undefined) or 1 (the value).  An object      *)
(* reference is its index in the collection that holds the objects of its  *)
(* class; 0 is the undefined reference.                                    *)
(***************************************************************************)
EXTENDS Integers, Sequences, FiniteSets, TLC

VARIABLES
    deployAction,   \* the DeployAction object (fields of the class)
    actionProps,    \* the DeployActionProps its constructor was given
    projects,       \* codebuild.PipelineProject objects created by bind
    buildActions,   \* codebuild.PipelineBuildAction objects created by bind
    scopeChildren,  \* construct ids already used in each scope
    bindCalls,      \* number of bind calls that returned normally
    reads,          \* references handed out by the two getters so far
    lastResult,     \* outcome of the last operation (return value or throw)
    pipeline,       \* the Pipeline construct and what its constructor made
    pipelineProps   \* the PipelineProps its constructor was given

vars == <<deployAction, actionProps, projects, buildActions, scopeChildren, bindCalls,
          reads, lastResult, pipeline, pipelineProps>>

-----------------------------------------------------------------------------
(* Bounds of the model *)

MaxStacks == 2
MaxBinds == 2
MaxStatements == 1
MaxSegments == 3

-----------------------------------------------------------------------------
(* JavaScript values *)

Undefined == <<>>
Some(v) == <<v>>
IsDefined(o) == Len(o) > 0
NullRef == 0

Return(v) == [ok |-> TRUE, error |-> "", value |-> v]
Throw(msg) == [ok |-> FALSE, error |-> msg, value |-> NullRef]

NotBoundError == "Action not bound to pipeline"
DuplicateConstructError == "There is already a Construct with name 'DeployStackProject'"

\* String.prototype.startsWith
StartsWith(s, p) == Len(s) >= Len(p) /\ SubSeq(s, 1, Len(p)) = p

\* String.prototype.substr(start)
Substr(s, start) == SubSeq(s, start + 1, Len(s))

\* index of the first occurrence of character c in s at or after i, 0 if none
RECURSIVE IndexFrom(_, _, _)
IndexFrom(s, c, i) ==
    IF i > Len(s) THEN 0
    ELSE IF s[i] = c THEN i
    ELSE IndexFrom(s, c, i + 1)

\* String.prototype.split(sep) for a one-character separator: every
\* occurrence of sep separates two (possibly empty) pieces
RECURSIVE Split(_, _)
Split(s, sep) ==
    LET i == IndexFrom(s, sep, 1)
    IN  IF i = 0 THEN <<s>>
        ELSE <<SubSeq(s, 1, i - 1)>> \o Split(SubSeq(s, i + 1, Len(s)), sep)

\* Array.prototype.join(sep)
RECURSIVE Join(_, _)
Join(parts, sep) ==
    IF Len(parts) = 0 THEN <<>>
    ELSE IF Len(parts) = 1 THEN parts[1]
    ELSE parts[1] \o sep \o Join(Tail(parts), sep)

\* String.prototype.includes
Includes(s, sub) ==
    \E i \in 1..(Len(s) - Len(sub) + 1) : SubSeq(s, i, i + Len(sub) - 1) = sub

\* a || b on strings: the empty string is falsy
OrElse(opt, default) ==
    IF IsDefined(opt) /\ Len(opt[1]) > 0 THEN opt[1] ELSE default

\* sequences over S of length at most n
SeqUpTo(S, n) == UNION {[1..k -> S] : k \in 0..n}

-----------------------------------------------------------------------------
(* String literals of the two sources *)

Latest == <<"l","a","t","e","s","t">>
All == <<"a","l","l">>
ExclusivelyOption == <<"-","-","e","x","c","l","u","s","i","v","e","l","y">>
InstallCommand ==
    <<"n","p","x"," ","n","p","m","@","l","a","t","e","s","t"," ","c","i">>
NpxPackage ==
    <<"n","p","x"," ","-","-","p","a","c","k","a","g","e"," ",
      "a","w","s","-","c","d","k","@">>
CdkDeploy == <<" ","-","-"," ","c","d","k"," ","d","e","p","l","o","y"," ">>
RequireApproval ==
    <<" ","-","-","r","e","q","u","i","r","e","-","a","p","p","r","o","v","a","l",
      "=","n","e","v","e","r"," ">>

-----------------------------------------------------------------------------
(* Inputs *)

StackNames == { <<"A","p","i">>, <<"D","b">> }
StackLists == {Undefined} \cup {Some(l) : l \in SeqUpTo(StackNames, MaxStacks)}
OptionalBooleans == {Undefined, Some(TRUE), Some(FALSE)}
Versions == {Undefined, Some(<<>>), Some(<<"1",".","0">>)}
Scopes == {"StageScopeA", "StageScopeB"}
StageNames == {"Deploy"}

AllowAllStatement == [effect |-> "Allow", resources |-> {"*"}, actions |-> {"*"}]
ReadStatement == [effect |-> "Allow", resources |-> {"*"}, actions |-> {"s3:GetObject"}]
PolicyStatements == {AllowAllStatement, ReadStatement}

DeployActionPropsSet ==
    [stacks : StackLists, exclusively : OptionalBooleans, admin : BOOLEAN,
     version : Versions, assembly : {"Assembly"}]

-----------------------------------------------------------------------------
(* class DeployAction *)

NullProps ==
    [stacks |-> Undefined, exclusively |-> Undefined, admin |-> FALSE,
     version |-> Undefined, assembly |-> ""]

NullAction ==
    [exists |-> FALSE, stacks |-> <<>>, actionName |-> <<>>, admin |-> FALSE,
     toolchainVersion |-> <<>>, assembly |-> "", exclusively |-> FALSE,
     inputArtifacts |-> <<>>, _project |-> NullRef, _buildAction |-> NullRef]

\* seeded fault: the stack argument joined the way the action name is
StacksArgument_Hyphen(props) ==
    IF IsDefined(props.stacks) THEN Join(props.stacks[1], <<"-">>) ELSE <<>>

\* props.stacks ? props.stacks.join(' ') : ''   (an empty array is truthy)
StacksArgument(props) ==
    IF IsDefined(props.stacks) THEN Join(props.stacks[1], <<" ">>) ELSE <<>>

\* (props.stacks || [ 'all' ]).join('-')
ActionName(props) ==
    Join(IF IsDefined(props.stacks) THEN props.stacks[1] ELSE <<All>>, <<"-">>)

\* props.exclusively === undefined ? false : true
ExclusivelyField(props) ==
    IF ~IsDefined(props.exclusively) THEN FALSE ELSE TRUE

\* props.version || 'latest'
ToolchainVersion(version) == OrElse(version, Latest)

DeployActionConstructor(props) ==
    [exists |-> TRUE,
     stacks |-> StacksArgument(props),
     actionName |-> ActionName(props),
     admin |-> props.admin,
     toolchainVersion |-> ToolchainVersion(props.version),
     assembly |-> props.assembly,
     exclusively |-> ExclusivelyField(props),
     inputArtifacts |-> <<>>,
     _project |-> NullRef,
     _buildAction |-> NullRef]

\* private get buildAction()
buildAction(self) ==
    IF self._buildAction = NullRef THEN Throw(NotBoundError)
    ELSE Return(self._buildAction)

\* seeded fault: the getter without its guard
project_Unguarded(self) == Return(self._project)

\* public get project()
project(self) ==
    IF self._project = NullRef THEN Throw(NotBoundError)
    ELSE Return(self._project)

\* the 'configuration' property defined in the constructor:
\* get: () => this.buildAction.configuration
configuration(self) == buildAction(self)

\* the deploy command of the build phase (template literal of bind)
DeployCommand(self) ==
    NpxPackage \o self.toolchainVersion \o CdkDeploy
        \o (IF self.exclusively THEN ExclusivelyOption ELSE <<>>)
        \o RequireApproval \o self.stacks

\* new codebuild.PipelineProject(scope, 'DeployStackProject', {...})
NewPipelineProject(self, scope) ==
    [scope |-> scope,
     installCommands |-> <<InstallCommand>>,
     buildCommands |-> <<DeployCommand(self)>>,
     rolePolicy |-> <<>>]

\* public addToRolePolicy(statement): this.project.addToRolePolicy(statement)
\* on the given collection of projects; a throw leaves the projects alone
addToRolePolicy(self, projs, statement) ==
    LET p == project(self)
    IN  IF p.ok
        THEN [ok |-> TRUE, error |-> "",
              projects |-> [projs EXCEPT ![p.value].rolePolicy = Append(@, statement)]]
        ELSE [ok |-> FALSE, error |-> p.error, projects |-> projs]

\* seeded fault: the statement appended whatever the admin flag
AdminStatements_Unconditional(self) == <<AllowAllStatement>>

\* the statements bind hands to addToRolePolicy: if (this.admin) {...}
AdminStatements(self) ==
    IF self.admin THEN <<AllowAllStatement>> ELSE <<>>

\* the object after the assignments of bind, given the new references
BoundAction(self, projectRef, buildActionRef) ==
    [self EXCEPT !.inputArtifacts = Append(@, self.assembly),
                 !._project = projectRef,
                 !._buildAction = buildActionRef]

-----------------------------------------------------------------------------
(* class Pipeline *)

SourcePrefix ==
    <<"h","t","t","p","s",":","/","/","g","i","t","h","u","b",".","c","o","m","/">>
SourceError == "\"source\" must start with https://github.com/"
ObjectKey ==
    <<"c","l","o","u","d","-","a","s","s","e","m","b","l","y",".","z","i","p">>
ExportPrefixLiteral == <<"c","d","k","-","p","i","p","e","l","i","n","e",":">>
BucketSuffix == <<"-","b","u","c","k","e","t">>
ObjectKeySuffix == <<"-","o","b","j","e","c","t","-","k","e","y">>
ToolchainVersionSuffix ==
    <<"-","t","o","o","l","c","h","a","i","n","-","v","e","r","s","i","o","n">>
\* publishBucket.bucketName is a deploy-time token: one opaque symbol
BucketNameToken == <<"${Publish.BucketName}">>

Acme == <<"a","c","m","e">>
Widgets == <<"w","i","d","g","e","t","s">>
Segments == {<<>>, Acme, Widgets}
Remainders == {Join(l, <<"/">>) : l \in SeqUpTo(Segments, MaxSegments) \ {<<>>}}
BadSources ==
    { <<>>,
      SubSeq(SourcePrefix, 1, Len(SourcePrefix) - 1),
      <<"h","t","t","p",":","/","/","g","i","t","h","u","b",".","c","o","m","/">>
          \o Acme \o <<"/">> \o Widgets,
      Acme \o <<"/">> \o Widgets }
Sources == {SourcePrefix \o r : r \in Remainders} \cup BadSources
Ids == { <<"A","p","p">>, <<"P","1">> }

\* the stack lists only pass through the Pipeline to its DeployAction
PipelineStackLists ==
    {Undefined, Some(<<>>), Some(<< <<"A","p","i">>, <<"D","b">> >>)}

PipelinePropsSet ==
    [oauthSecret : {"arn:secret"}, source : Sources, branch : {Undefined},
     stacks : PipelineStackLists, exclusively : OptionalBooleans,
     admin : OptionalBooleans, version : Versions]

NullPipelineProps ==
    [oauthSecret |-> "", source |-> <<>>, branch |-> Undefined,
     stacks |-> Undefined, exclusively |-> Undefined, admin |-> Undefined,
     version |-> Undefined]

NullPipeline ==
    [status |-> "none", error |-> "", id |-> <<>>,
     oauth |-> Undefined, sourceAction |-> Undefined, buildAction |-> Undefined,
     publishBucket |-> Undefined, publishAction |-> Undefined,
     codepipeline |-> Undefined, outputs |-> <<>>]

\* const source = props.source.substr(sourcePrefix.length);
\* const [ owner, repo ] = source.split('/');
SourceParts(source) == Split(Substr(source, Len(SourcePrefix)), "/")

\* destructuring: the first element, which split always yields
Owner(source) == SourceParts(source)[1]

\* seeded fault: split on the first '/' only, the rest of the path as repository
Repo_RestOfPath(source) ==
    LET rest == Substr(source, Len(SourcePrefix))
        i == IndexFrom(rest, "/", 1)
    IN  IF i = 0 THEN Undefined ELSE Some(SubSeq(rest, i + 1, Len(rest)))

\* destructuring: the second element, undefined when there is none
Repo(source) ==
    LET parts == SourceParts(source)
    IN  IF Len(parts) >= 2 THEN Some(parts[2]) ELSE Undefined

\* seeded fault: the caller's admin option threaded through, true by default
PipelineDeployProps_CallerAdmin(props) ==
    [admin |-> IF IsDefined(props.admin) THEN props.admin[1] ELSE TRUE,
     assembly |-> "BuildDeploy.outputArtifact",
     stacks |-> props.stacks,
     version |-> props.version,
     exclusively |-> props.exclusively]

\* the props the Pipeline constructor hands to new DeployAction
PipelineDeployProps(props) ==
    [admin |-> TRUE,
     assembly |-> "BuildDeploy.outputArtifact",
     stacks |-> props.stacks,
     version |-> props.version,
     exclusively |-> props.exclusively]

\* seeded fault: the artifact published before it is deployed
PipelineStages_PublishFirst ==
    << [name |-> "Source",  actions |-> <<"sourceAction">>],
       [name |-> "Build",   actions |-> <<"buildAction">>],
       [name |-> "Publish", actions |-> <<"publishAction">>],
       [name |-> "Deploy",  actions |-> <<"deployAction">>] >>

\* the stages handed to new codepipeline.Pipeline
PipelineStages ==
    << [name |-> "Source",  actions |-> <<"sourceAction">>],
       [name |-> "Build",   actions |-> <<"buildAction">>],
       [name |-> "Deploy",  actions |-> <<"deployAction">>],
       [name |-> "Publish", actions |-> <<"publishAction">>] >>

\* seeded fault: the version exported as given, without the default
PipelineOutputs_RawVersion(id, props) ==
    LET version == IF IsDefined(props.version) THEN props.version[1] ELSE <<>>
        exportPrefix == ExportPrefixLiteral \o id
    IN  << [id |-> "PublishBucketName", value |-> BucketNameToken,
            export |-> exportPrefix \o BucketSuffix],
           [id |-> "PublishObjectKey", value |-> ObjectKey,
            export |-> exportPrefix \o ObjectKeySuffix],
           [id |-> "ToolchainVersion", value |-> version,
            export |-> exportPrefix \o ToolchainVersionSuffix] >>

\* the three CfnOutputs
PipelineOutputs(id, props) ==
    LET version == OrElse(props.version, Latest)
        exportPrefix == ExportPrefixLiteral \o id
    IN  << [id |-> "PublishBucketName", value |-> BucketNameToken,
            export |-> exportPrefix \o BucketSuffix],
           [id |-> "PublishObjectKey", value |-> ObjectKey,
            export |-> exportPrefix \o ObjectKeySuffix],
           [id |-> "ToolchainVersion", value |-> version,
            export |-> exportPrefix \o ToolchainVersionSuffix] >>

\* the constructor after the prefix check has passed
AssemblePipeline(id, props) ==
    [pipeline |->
        [status |-> "built", error |-> "", id |-> id,
         oauth |-> Some([secretId |-> props.oauthSecret]),
         sourceAction |-> Some([actionName |-> "Pull",
                                owner |-> Owner(props.source),
                                repo |-> Repo(props.source),
                                outputArtifactName |-> "Source",
                                branch |-> props.branch]),
         buildAction |-> Some([sourceArtifact |-> "Source",
                               version |-> props.version]),
         publishBucket |-> Some([versioned |-> TRUE, bucketName |-> BucketNameToken]),
         publishAction |-> Some([inputArtifact |-> "BuildDeploy.outputArtifact",
                                 actionName |-> "Publish",
                                 bucket |-> "Publish",
                                 objectKey |-> ObjectKey,
                                 extract |-> FALSE]),
         codepipeline |-> Some([restartExecutionOnUpdate |-> TRUE,
                                stages |-> PipelineStages]),
         outputs |-> PipelineOutputs(id, props)],
     deployAction |-> DeployActionConstructor(PipelineDeployProps(props)),
     actionProps |-> PipelineDeployProps(props)]

\* seeded fault: the secret looked up before the source is validated
PipelineConstructor_SecretFirst(id, props) ==
    IF ~StartsWith(props.source, SourcePrefix)
    THEN [pipeline |-> [NullPipeline EXCEPT !.status = "failed",
                                            !.error = SourceError, !.id = id,
                                            !.oauth = Some([secretId |-> props.oauthSecret])],
          deployAction |-> NullAction,
          actionProps |-> NullProps]
    ELSE AssemblePipeline(id, props)

\* constructor(scope, id, props)
PipelineConstructor(id, props) ==
    IF ~StartsWith(props.source, SourcePrefix)
    THEN [pipeline |-> [NullPipeline EXCEPT !.status = "failed",
                                            !.error = SourceError, !.id = id],
          deployAction |-> NullAction,
          actionProps |-> NullProps]
    ELSE AssemblePipeline(id, props)

-----------------------------------------------------------------------------
(* State and operations *)

Init ==
    /\ deployAction = NullAction
    /\ actionProps = NullProps
    /\ projects = <<>>
    /\ buildActions = <<>>
    /\ scopeChildren = [s \in Scopes |-> {}]
    /\ bindCalls = 0
    /\ reads = [project |-> {}, configuration |-> {}]
    /\ lastResult = [op |-> "none", ok |-> TRUE, error |-> "", value |-> NullRef]
    /\ pipeline = NullPipeline
    /\ pipelineProps = NullPipelineProps

\* new DeployAction(props)
NewDeployAction(props) ==
    /\ deployAction' = DeployActionConstructor(props)
    /\ actionProps' = props
    /\ lastResult' = [op |-> "new", ok |-> TRUE, error |-> "", value |-> NullRef]
    /\ UNCHANGED <<projects, buildActions, scopeChildren, bindCalls, reads, pipeline,
                   pipelineProps>>

\* number of statements in the role policies beyond those bind appended
RECURSIVE ApplicationStatements(_, _)
ApplicationStatements(projs, self) ==
    IF Len(projs) = 0 THEN 0
    ELSE Len(projs[1].rolePolicy) - Len(AdminStatements(self))
            + ApplicationStatements(Tail(projs), self)

\* the application constructs the one DeployAction of a behaviour
ConstructDeployAction ==
    /\ ~deployAction.exists
    /\ \E props \in DeployActionPropsSet : NewDeployAction(props)

\* deployAction.bind(stage, scope)
Bind(stage, scope) ==
    /\ deployAction.exists
    /\ Len(projects) < MaxBinds
    /\ IF "DeployStackProject" \in scopeChildren[scope]
       THEN \* the construct tree rejects a second child of the same id
            /\ lastResult' = [op |-> "bind", ok |-> FALSE,
                              error |-> DuplicateConstructError, value |-> NullRef]
            /\ UNCHANGED <<deployAction, actionProps, projects, buildActions,
                           scopeChildren, bindCalls, reads, pipeline, pipelineProps>>
       ELSE LET projectRef == Len(projects) + 1
                buildActionRef == Len(buildActions) + 1
                bound == BoundAction(deployAction, projectRef, buildActionRef)
                created == Append(projects, NewPipelineProject(deployAction, scope))
                statements == AdminStatements(bound)
                granted ==
                    IF Len(statements) = 0
                    THEN [ok |-> TRUE, error |-> "", projects |-> created]
                    ELSE addToRolePolicy(bound, created, statements[1])
            IN  /\ deployAction' = bound
                /\ projects' = granted.projects
                /\ buildActions' = Append(buildActions,
                        [actionName |-> deployAction.actionName,
                         inputArtifact |-> deployAction.assembly,
                         project |-> projectRef,
                         stage |-> stage, scope |-> scope])
                /\ scopeChildren' = [scopeChildren EXCEPT ![scope] = @ \cup {"DeployStackProject"}]
                /\ bindCalls' = IF granted.ok THEN bindCalls + 1 ELSE bindCalls
                /\ lastResult' = [op |-> "bind", ok |-> granted.ok,
                                  error |-> granted.error, value |-> NullRef]
                /\ UNCHANGED <<actionProps, reads, pipeline, pipelineProps>>

\* deployAction.addToRolePolicy(statement), called by the application
AddToRolePolicy(statement) ==
    /\ deployAction.exists
    /\ ApplicationStatements(projects, deployAction) < MaxStatements
    /\ LET r == addToRolePolicy(deployAction, projects, statement)
       IN  /\ projects' = r.projects
           /\ lastResult' = [op |-> "addToRolePolicy", ok |-> r.ok,
                             error |-> r.error, value |-> NullRef]
    /\ UNCHANGED <<deployAction, actionProps, buildActions, scopeChildren, bindCalls,
                   reads, pipeline, pipelineProps>>

\* reading deployAction.project
ReadProject ==
    /\ deployAction.exists
    /\ LET r == project(deployAction)
       IN  /\ lastResult' = [op |-> "project", ok |-> r.ok, error |-> r.error,
                             value |-> r.value]
           /\ reads' = IF r.ok THEN [reads EXCEPT !.project = @ \cup {r.value}]
                       ELSE reads
    /\ UNCHANGED <<deployAction, actionProps, projects, buildActions, scopeChildren,
                   bindCalls, pipeline, pipelineProps>>

\* reading deployAction.configuration
ReadConfiguration ==
    /\ deployAction.exists
    /\ LET r == configuration(deployAction)
       IN  /\ lastResult' = [op |-> "configuration", ok |-> r.ok, error |-> r.error,
                             value |-> r.value]
           /\ reads' = IF r.ok THEN [reads EXCEPT !.configuration = @ \cup {r.value}]
                       ELSE reads
    /\ UNCHANGED <<deployAction, actionProps, projects, buildActions, scopeChildren,
                   bindCalls, pipeline, pipelineProps>>

\* new Pipeline(scope, id, props)
NewPipeline(id, props) ==
    /\ LET made == PipelineConstructor(id, props)
       IN  /\ pipeline' = made.pipeline
           /\ deployAction' = made.deployAction
           /\ actionProps' = made.actionProps
           /\ pipelineProps' = props
           /\ lastResult' = [op |-> "new Pipeline", ok |-> made.pipeline.status = "built",
                             error |-> made.pipeline.error, value |-> NullRef]
    /\ UNCHANGED <<projects, buildActions, scopeChildren, bindCalls, reads>>

\* the application constructs the one Pipeline of a behaviour
ConstructPipeline ==
    /\ pipeline.status = "none"
    /\ ~deployAction.exists
    /\ \E id \in Ids, props \in PipelinePropsSet : NewPipeline(id, props)

\* Assembling a pipeline: the constructor, then the owning stage binds the
\* deploy action
PipelineNext ==
    \/ ConstructPipeline
    \/ \E stage \in StageNames, scope \in Scopes : Bind(stage, scope)

PipelineSpec == Init /\ [][PipelineNext]_vars

Next ==
    \/ ConstructDeployAction
    \/ \E stage \in StageNames, scope \in Scopes : Bind(stage, scope)
    \/ \E statement \in PolicyStatements : AddToRolePolicy(statement)
    \/ ReadProject
    \/ ReadConfiguration

Spec == Init /\ [][Next]_vars

-----------------------------------------------------------------------------
(* Properties of DeployAction, checked under Spec *)

Bound == deployAction._project # NullRef
BoundProject == projects[deployAction._project]
BoundCommand == BoundProject.buildCommands[1]

\* C1: before any bind call, reading project, reading configuration and
\* addToRolePolicy all throw 'Action not bound to pipeline' and leave the
\* action unbound; after exactly one bind call both reads succeed, and every
\* read of a getter has returned the same reference.
C1_UnboundThrowsBoundStable ==
    /\ (bindCalls = 0 /\ lastResult.op \in {"project", "configuration", "addToRolePolicy"})
         => /\ ~lastResult.ok
            /\ lastResult.error = NotBoundError
            /\ deployAction._project = NullRef
            /\ deployAction._buildAction = NullRef
            /\ projects = <<>>
    /\ (bindCalls = 1 /\ lastResult.op \in {"project", "configuration"})
         => /\ lastResult.ok
            /\ lastResult.value # NullRef
    /\ bindCalls = 1
         => /\ Cardinality(reads.project) <= 1
            /\ Cardinality(reads.configuration) <= 1

C1_Witness ==
    /\ bindCalls = 1
    /\ lastResult.op = "configuration"
    /\ lastResult.ok
    /\ reads.project = {deployAction._project}
    /\ reads.configuration = {deployAction._buildAction}

\* C2: the deploy command generated by bind contains '--exclusively' if and
\* only if the exclusively flag was set to true (absent when the flag is
\* omitted and when it is explicitly false).
C2_ExclusivelyIffTrue ==
    Bound => (Includes(BoundCommand, ExclusivelyOption)
                <=> actionProps.exclusively = Some(TRUE))

\* the text of the command after ' --require-approval=never '
StackArgumentOf(command) ==
    LET at == CHOOSE i \in 1..Len(command) :
                /\ SubSeq(command, i, i + Len(RequireApproval) - 1) = RequireApproval
                /\ \A j \in 1..(i - 1) :
                     SubSeq(command, j, j + Len(RequireApproval) - 1) # RequireApproval
    IN  SubSeq(command, at + Len(RequireApproval), Len(command))

\* C5: the deploy command lists the stack names exactly as given, separated
\* by single spaces and in input order (cutting the stack argument at its
\* spaces gives back the list); with no stacks (absent or empty list) the
\* stack argument is the empty string.
C5_StacksAsGiven ==
    Bound =>
        LET arg == StackArgumentOf(BoundCommand)
        IN  IF IsDefined(actionProps.stacks) /\ Len(actionProps.stacks[1]) > 0
            THEN Split(arg, " ") = actionProps.stacks[1]
            ELSE arg = <<>>

C5_Witness ==
    /\ Bound
    /\ actionProps.stacks = Some(<< <<"D","b">>, <<"A","p","i">> >>)
    /\ StackArgumentOf(BoundCommand) = <<"D","b"," ","A","p","i">>

\* C9: Bound is terminal and the bound objects are never replaced: once the
\* action holds a project and a build action, no operation changes them.
C9_BoundNeverReplaced ==
    [][Bound => /\ deployAction'._project = deployAction._project
                /\ deployAction'._buildAction = deployAction._buildAction]_vars

\* C10: bind appends the allow-all statement to the execution role if and
\* only if the admin flag is set: after bind returns, the role of the project
\* it created holds exactly that one statement when admin is true and none
\* when admin is false, and bind never fails with the 'not bound' error.
C10_AdminStatementOnBind ==
    lastResult.op = "bind" =>
        /\ lastResult.error # NotBoundError
        /\ lastResult.ok =>
             /\ Bound
             /\ BoundProject.rolePolicy =
                    IF actionProps.admin
                    THEN << [effect |-> "Allow", resources |-> {"*"}, actions |-> {"*"}] >>
                    ELSE <<>>

C10_Witness ==
    /\ lastResult.op = "bind"
    /\ lastResult.ok
    /\ actionProps.admin
    /\ BoundProject.rolePolicy = <<AllowAllStatement>>

-----------------------------------------------------------------------------
(* Properties of Pipeline, checked under PipelineSpec *)

\* the source starts with 'https://github.com/', character by character
HasGithubPrefix(source) ==
    /\ Len(source) >= Len(SourcePrefix)
    /\ \A i \in 1..Len(SourcePrefix) : source[i] = SourcePrefix[i]

NothingCreated ==
    /\ ~IsDefined(pipeline.oauth)
    /\ ~IsDefined(pipeline.sourceAction)
    /\ ~IsDefined(pipeline.buildAction)
    /\ ~IsDefined(pipeline.publishBucket)
    /\ ~IsDefined(pipeline.publishAction)
    /\ ~IsDefined(pipeline.codepipeline)
    /\ pipeline.outputs = <<>>
    /\ ~deployAction.exists
    /\ projects = <<>>
    /\ buildActions = <<>>

\* C3: for a source that does not start with 'https://github.com/' the
\* constructor fails with the configuration error and has created no secret,
\* source action, build action, bucket, publish action, deploy action,
\* pipeline or output.
C3_BadSourceFailsFirst ==
    (pipeline.status # "none" /\ ~HasGithubPrefix(pipelineProps.source))
        => /\ pipeline.status = "failed"
           /\ lastResult.error = SourceError
           /\ NothingCreated

C3_Witness ==
    /\ pipeline.status = "failed"
    /\ pipelineProps.source = Acme \o <<"/">> \o Widgets
    /\ NothingCreated

\* the source after the prefix
Remainder == SubSeq(pipelineProps.source, Len(SourcePrefix) + 1, Len(pipelineProps.source))
SlashPositions == {i \in 1..Len(Remainder) : Remainder[i] = "/"}
FirstSlash == CHOOSE i \in SlashPositions : \A j \in SlashPositions : i <= j
Built == pipeline.status = "built"

\* C4 as stated: the remainder is split on the first '/' only: the owner is
\* the text before it and the repository everything after it.
C4_SplitOnFirstSlashOnly ==
    (Built /\ SlashPositions # {})
        => /\ pipeline.sourceAction[1].owner = SubSeq(Remainder, 1, FirstSlash - 1)
           /\ pipeline.sourceAction[1].repo
                = Some(SubSeq(Remainder, FirstSlash + 1, Len(Remainder)))

\* C4 as amended: the owner is the text before the first '/' (the whole
\* remainder when there is none); the repository is the text between the
\* first and the second '/' (up to the end when there is no second one) and
\* is undefined when the remainder holds no '/'.
C4_OwnerAndSecondSegment ==
    Built =>
        LET owner == pipeline.sourceAction[1].owner
            repo == pipeline.sourceAction[1].repo
        IN  IF SlashPositions = {}
            THEN owner = Remainder /\ repo = Undefined
            ELSE LET later == {i \in SlashPositions : i > FirstSlash}
                     stop == IF later = {} THEN Len(Remainder) + 1
                             ELSE CHOOSE i \in later : \A j \in later : i <= j
                 IN  /\ owner = SubSeq(Remainder, 1, FirstSlash - 1)
                     /\ repo = Some(SubSeq(Remainder, FirstSlash + 1, stop - 1))

C4_Witness ==
    /\ Built
    /\ Remainder = Acme \o <<"/">> \o Widgets \o <<"/">> \o Acme
    /\ pipeline.sourceAction[1].owner = Acme
    /\ pipeline.sourceAction[1].repo = Some(Widgets)

\* C6: for every props with a valid source the assembled pipeline has exactly
\* the four stages Source, Build, Deploy, Publish in this order, each with
\* exactly one action: the source, build, deploy and publish action.
C6_FourStagesInOrder ==
    (pipeline.status # "none" /\ HasGithubPrefix(pipelineProps.source))
        => /\ Built
           /\ IsDefined(pipeline.codepipeline)
           /\ LET stages == pipeline.codepipeline[1].stages
              IN  /\ Len(stages) = 4
                  /\ [i \in 1..4 |-> stages[i].name]
                        = <<"Source", "Build", "Deploy", "Publish">>
                  /\ [i \in 1..4 |-> stages[i].actions]
                        = << <<"sourceAction">>, <<"buildAction">>,
                             <<"deployAction">>, <<"publishAction">> >>
           /\ IsDefined(pipeline.sourceAction)
           /\ IsDefined(pipeline.buildAction)
           /\ IsDefined(pipeline.publishAction)
           /\ deployAction.exists

C6_Witness ==
    /\ Built
    /\ Len(pipeline.codepipeline[1].stages) = 4
    /\ pipelineProps.stacks = Undefined
    /\ pipelineProps.version = Undefined
    /\ pipelineProps.admin = Some(FALSE)

ResolvedVersion ==
    IF pipelineProps.version = Undefined THEN Latest
    ELSE IF pipelineProps.version[1] = <<>> THEN Latest
    ELSE pipelineProps.version[1]

\* C8: a built pipeline exports exactly three values, named
\* 'cdk-pipeline:<id>-bucket', '-object-key' and '-toolchain-version', whose
\* values are the publish bucket's name, 'cloud-assembly.zip' and the
\* resolved toolchain version (the caller's, or 'latest'), which is the
\* version in the deploy action and in its deploy command.
C8_ThreeExports ==
    Built =>
        LET out == pipeline.outputs
            name(suffix) == ExportPrefixLiteral \o pipeline.id \o suffix
        IN  /\ Len(out) = 3
            /\ Cardinality({out[i].export : i \in 1..Len(out)}) = 3
            /\ \E i \in 1..Len(out) :
                 /\ out[i].export = name(BucketSuffix)
                 /\ out[i].value = pipeline.publishBucket[1].bucketName
            /\ \E i \in 1..Len(out) :
                 /\ out[i].export = name(ObjectKeySuffix)
                 /\ out[i].value = ObjectKey
                 /\ out[i].value = pipeline.publishAction[1].objectKey
            /\ \E i \in 1..Len(out) :
                 /\ out[i].export = name(ToolchainVersionSuffix)
                 /\ out[i].value = ResolvedVersion
                 /\ out[i].value = deployAction.toolchainVersion
                 /\ Bound => StartsWith(BoundCommand,
                                        NpxPackage \o out[i].value \o CdkDeploy)

C8_Witness ==
    /\ Built
    /\ Bound
    /\ pipeline.id = <<"P","1">>
    /\ pipelineProps.version = Some(<<>>)
    /\ pipeline.outputs[3].export
         = <<"c","d","k","-","p","i","p","e","l","i","n","e",":","P","1",
             "-","t","o","o","l","c","h","a","i","n","-","v","e","r","s","i","o","n">>
    /\ pipeline.outputs[3].value = Latest

====
